---- MODULE Spec2Model ----
(***************************************************************************)
(* The execution core of strom (src/strom/model.py): Source, Transformer,  *)
(* Gate, Sink, Stream (get_frame, is_closed, split, run) and Barrier.      *)
(*                                                                         *)
(* A pipeline is built before it is driven, so the pipeline (which streams *)
(* exist, their sources, elements and sinks) is fixed by the initial       *)
(* state; the actions are the calls a driver makes on a built pipeline:    *)
(* Stream.get_frame, and Stream.run (one action per iteration of its while *)
(* loop).  The engine is single-threaded: while a run() is in progress no  *)
(* other call is made.                                                     *)
(***************************************************************************)
EXTENDS Integers, Sequences, FiniteSets, TLC

\* ---------------------------------------------------------------- bounds
MaxVal   == 1      \* frames of a batch collection are 0..MaxVal
MaxLen   == 2      \* longest batch collection of a single stream
MaxElems == 2      \* most elements added to a single stream
MaxSplitLen == 2   \* longest batch collection of a split stream
MaxBarrierLen == 2 \* longest batch collection of a Barrier's stream
MaxArgs  == 2      \* most captured and most runtime arguments of a handler call

\* Python's None, the no-frame value, among integer frames
None == -1
\* the receiver object a method handler is bound to (first captured argument)
Receiver == -2

VARIABLES
    streams,      \* names of the Stream objects of the pipeline
    source,       \* Stream.source of every stream (a Source or a Barrier)
    elements,     \* Stream.elements of every stream
    sink,         \* Stream.sink of every stream
    _data,        \* Source._data of every stream's source
    frames,       \* SplitSourceContext.frames, the split's Queue
    _queue,       \* Barrier._queue
    sink_result,  \* what the handler of every stream's sink has been given
    run_stream,   \* the stream run() was called on last, or "none"
    run_status,   \* where the latest run() is: "running", "returned" or its error
    run_pulls,    \* get_frame calls made by the latest run()
    run_sunk,     \* sink.process calls made by the latest run()
    run_fresh,    \* the latest run() was the first call made on the pipeline
    returned,     \* frames every stream's source has returned, in order
    last,         \* the latest get_frame call made by the driver or by run()
    element,      \* a PipelineElement being built and called on its own
    new_source,   \* what Source(...) gave for element, if it was called
    handler_call  \* what element.call_handler(...) gave, if it was called

vars == <<streams, source, elements, sink, _data, frames, _queue, sink_result,
          run_stream, run_status, run_pulls, run_sunk, run_fresh, returned, last,
          element, new_source, handler_call>>

\* the element built and called on its own, apart from any pipeline
standalone == <<element, new_source, handler_call>>

config == <<streams, source, elements, sink>>

\* the stream whose run() is executing, or "none"
running == IF run_status = "running" THEN run_stream ELSE "none"

AllStreams == {"stream_a", "stream_b", "result_stream"}

\* ---------------------------------------------------------------- helpers
\* The objects a call can change, threaded through the operators below.
\* calls lists the element invocations the call made, windows the buffers the
\* Barrier's handler was invoked with, pulls the streams the Barrier called
\* get_frame on, returned the frames the sources handed out.
World == [_data |-> _data, frames |-> frames, _queue |-> _queue,
          returned |-> returned, calls |-> <<>>, windows |-> <<>>, pulls |-> <<>>]

\* a call that returns v
Return(w, v) == [w |-> w, ret |-> v, none |-> FALSE, exc |-> "none"]
\* a call that returns the integer frame or None v
ReturnFrame(w, v) == [w |-> w, ret |-> v, none |-> (v = None), exc |-> "none"]
\* an element of stream s returns the frame v it was given: an integer or
\* None, or one of the mappings a Barrier hands out
ReturnGiven(w, s, v) ==
    IF source[s].kind = "Barrier" THEN [w |-> w, ret |-> v, none |-> FALSE, exc |-> "none"]
                                  ELSE ReturnFrame(w, v)
\* a call that returns None
ReturnNone(w) == [w |-> w, ret |-> None, none |-> TRUE, exc |-> "none"]
\* a call that raises e
Raise(w, e) == [w |-> w, ret |-> None, none |-> TRUE, exc |-> e]

RECURSIVE Stream_is_closed(_, _)
RECURSIVE Stream_get_frame(_, _)
RECURSIVE fold_elements(_, _, _, _)
RECURSIVE fold_elements_no_break(_, _, _, _)
RECURSIVE query_streams(_, _, _, _)
RECURSIVE before_split(_, _, _)
RECURSIVE query_streams_unchecked(_, _, _, _)
RECURSIVE world_at(_, _)
RECURSIVE query_streams_reversed(_, _, _, _)

\* ---------------------------------------------------------------- binder
\* an argument list with the captured arguments first, whatever the handler
args_for_handler_captured_first(e, args) == e._handler_args \o args

\* PipelineElement.call_handler: the argument list handed to the handler
args_for_handler(e, args) ==
    IF e.has_self
    THEN <<Head(e._handler_args)>> \o args \o Tail(e._handler_args)
    ELSE args \o e._handler_args

\* the handlers of the pipelines explored: a frame function or a predicate
\* of the argument list argv
handler(name, argv) ==
    CASE name = "add_number"            -> argv[1] + argv[2]
      [] name = "greater_five_plus_one" -> IF argv[1] < 5 THEN argv[1] + 1 ELSE argv[1]
      [] name = "none_if_zero"          -> IF argv[1] = 0 THEN None ELSE argv[1]
      [] name = "is_even"               -> argv[1] % 2 = 0
      [] name = "check_greater_than_zero" -> argv[1] > 0
      [] name = "slots_filled"          -> \A n \in DOMAIN argv[1] : argv[1][n] # None

\* SplitSourceContext.closer looking at the buffer only
closer_buffer_only(w) == w.frames = <<>>

\* SplitSourceContext.closer looking at the origin only
closer_origin_only(w) == Stream_is_closed(w, "stream_a")

\* SplitSourceContext.closer
closer(w) == Stream_is_closed(w, "stream_a") /\ w.frames = <<>>

\* call_handler with a split passthrough that puts nothing into the buffer
call_handler_no_mirror(w, s, i, e, frame) ==
    LET argv == args_for_handler(e, <<frame>>)
    IN  IF e._handler = "transformer"
        THEN Return(w, argv[2])
        ELSE Return(w, handler(e._handler, argv))

\* PipelineElement.call_handler of a Transformer or Gate e of stream s at
\* position i, with the frame as runtime argument
call_handler(w, s, i, e, frame) ==
    LET argv == args_for_handler(e, <<frame>>)
    IN  IF e._handler = "transformer"
        THEN \* SplitSourceContext.transformer(self, frame)
             Return([w EXCEPT !.frames = Append(@, argv[2])], argv[2])
        ELSE Return(w, handler(e._handler, argv))

\* ---------------------------------------------------------------- Source
\* Source.is_closed that asks the handler for the collection when the Source
\* has not been pulled from yet
Source_is_closed_materializing(w, s) ==
    IF source[s].all_at_once
    THEN (IF w._data[s].is_None THEN source[s].content ELSE w._data[s].list) = <<>>
    ELSE closer(w)

\* Source.is_closed of the Source of stream s
Source_is_closed(w, s) ==
    IF source[s].all_at_once
    THEN ~ (w._data[s].is_None \/ w._data[s].list # <<>>)
    ELSE closer(w)

\* Source.get_frame removing from the back of the collection (pop() for pop(0))
Source_get_frame_lifo(w, s) ==
    IF Source_is_closed(w, s)
    THEN Raise(w, "SourceIsClosedException")
    ELSE IF source[s].all_at_once
         THEN LET d == IF w._data[s].is_None THEN source[s].content
                                             ELSE w._data[s].list
              IN  IF d = <<>>
                  THEN Raise([w EXCEPT !._data[s] = [is_None |-> FALSE, list |-> <<>>]],
                             "IndexError")
                  ELSE ReturnFrame([w EXCEPT !._data[s] = [is_None |-> FALSE,
                                                           list |-> SubSeq(d, 1, Len(d) - 1)],
                                             !.returned[s] = Append(@, d[Len(d)])],
                                   d[Len(d)])
         ELSE IF w.frames = <<>>
              THEN Raise(w, "Empty")
              ELSE ReturnFrame([w EXCEPT !.frames = Tail(@),
                                         !.returned[s] = Append(@, Head(w.frames))],
                               Head(w.frames))

\* Source.get_frame that does not ask is_closed first
Source_get_frame_unchecked(w, s) ==
    IF source[s].all_at_once
    THEN LET d == IF w._data[s].is_None THEN source[s].content
                                        ELSE w._data[s].list
         IN  IF d = <<>>
             THEN Raise([w EXCEPT !._data[s] = [is_None |-> FALSE, list |-> <<>>]],
                        "IndexError")
             ELSE ReturnFrame([w EXCEPT !._data[s] = [is_None |-> FALSE, list |-> Tail(d)],
                                        !.returned[s] = Append(@, Head(d))],
                              Head(d))
    ELSE IF w.frames = <<>>
         THEN Raise(w, "Empty")
         ELSE ReturnFrame([w EXCEPT !.frames = Tail(@),
                                    !.returned[s] = Append(@, Head(w.frames))],
                          Head(w.frames))

\* Source.get_frame whose split source returns None while the buffer is empty
Source_get_frame_none_when_empty(w, s) ==
    IF Source_is_closed(w, s)
    THEN Raise(w, "SourceIsClosedException")
    ELSE IF source[s].all_at_once
         THEN LET d == IF w._data[s].is_None THEN source[s].content
                                             ELSE w._data[s].list
              IN  IF d = <<>>
                  THEN Raise([w EXCEPT !._data[s] = [is_None |-> FALSE, list |-> <<>>]],
                             "IndexError")
                  ELSE ReturnFrame([w EXCEPT !._data[s] = [is_None |-> FALSE, list |-> Tail(d)],
                                             !.returned[s] = Append(@, Head(d))],
                                   Head(d))
         ELSE IF w.frames = <<>>
              THEN ReturnNone(w)
              ELSE ReturnFrame([w EXCEPT !.frames = Tail(@),
                                         !.returned[s] = Append(@, Head(w.frames))],
                               Head(w.frames))

\* Source.get_frame of the Source of stream s
Source_get_frame(w, s) ==
    IF Source_is_closed(w, s)
    THEN Raise(w, "SourceIsClosedException")
    ELSE IF source[s].all_at_once
         THEN LET d == IF w._data[s].is_None THEN source[s].content
                                             ELSE w._data[s].list
              IN  IF d = <<>>
                  THEN \* [].pop(0)
                       Raise([w EXCEPT !._data[s] = [is_None |-> FALSE, list |-> <<>>]],
                             "IndexError")
                  ELSE ReturnFrame([w EXCEPT !._data[s] = [is_None |-> FALSE, list |-> Tail(d)],
                                             !.returned[s] = Append(@, Head(d))],
                                   Head(d))
         ELSE \* SplitSourceContext.source: self.frames.get_nowait()
              IF w.frames = <<>>
              THEN Raise(w, "Empty")
              ELSE ReturnFrame([w EXCEPT !.frames = Tail(@),
                                         !.returned[s] = Append(@, Head(w.frames))],
                               Head(w.frames))

\* ---------------------------------------------------------------- elements
\* Transformer.transform that returns the frame it was given
Transformer_transform_identity(w, s, i, e, frame) ==
    LET r == call_handler(w, s, i, e, frame)
    IN  ReturnFrame(r.w, frame)

\* Transformer.transform
Transformer_transform(w, s, i, e, frame) ==
    LET r == call_handler(w, s, i, e, frame)
    IN  ReturnFrame(r.w, r.ret)

\* Gate.transform that lets a frame failing a non-fatal gate through
Gate_transform_pass_all(w, s, i, e, frame) ==
    LET r == call_handler(w, s, i, e, frame)
        frame_passes_gate == r.ret
    IN  IF ~ frame_passes_gate /\ e._is_fatal
        THEN Raise(r.w, "GateFailedException")
        ELSE ReturnFrame(r.w, frame)

\* Gate.transform that drops where a fatal gate must raise
Gate_transform_never_fatal(w, s, i, e, frame) ==
    LET r == call_handler(w, s, i, e, frame)
        frame_passes_gate == r.ret
    IN  IF ~ frame_passes_gate
        THEN ReturnNone(r.w)
        ELSE ReturnFrame(r.w, frame)

\* Gate.transform
Gate_transform(w, s, i, e, frame) ==
    LET r == call_handler(w, s, i, e, frame)
        frame_passes_gate == r.ret
    IN  IF ~ frame_passes_gate
        THEN IF e._is_fatal
             THEN Raise(r.w, "GateFailedException")
             ELSE ReturnNone(r.w)
        ELSE ReturnGiven(r.w, s, frame)

\* element.transform(frame) for the element e at position i of stream s; the
\* invocation and its outcome are noted in calls
transform(w, s, i, e, frame) ==
    LET t == IF e.cls = "Gate" THEN Gate_transform(w, s, i, e, frame)
                               ELSE Transformer_transform(w, s, i, e, frame)
    IN  [t EXCEPT !.w.calls = Append(@, [stream |-> s, idx |-> i, frame |-> frame,
                                         out |-> t.ret, none |-> t.none, exc |-> t.exc])]

\* ---------------------------------------------------------------- Stream
\* the for loop of Stream.get_frame without its break on None
fold_elements_no_break(w, s, i, r) ==
    IF i > Len(elements[s]) THEN r
    ELSE LET t == transform(w, s, i, elements[s][i], r.ret)
         IN  IF t.exc # "none" THEN t
             ELSE fold_elements_no_break(t.w, s, i + 1, t)

\* the for loop of Stream.get_frame from element i on
fold_elements(w, s, i, r) ==
    IF i > Len(elements[s]) THEN r
    ELSE IF r.none THEN r
    ELSE LET t == transform(w, s, i, elements[s][i], r.ret)
         IN  IF t.exc # "none" THEN t
             ELSE fold_elements(t.w, s, i + 1, t)

\* ---------------------------------------------------------------- Barrier
\* Barrier.is_closed that also waits for the buffer to be empty
Barrier_is_closed_when_drained(w, s) ==
    /\ \A i \in 1 .. Len(source[s]._streams) : Stream_is_closed(w, source[s]._streams[i])
    /\ w._queue = <<>>

\* Barrier.is_closed with any() for all(): closed as soon as one stream is
Barrier_is_closed_any(w, s) ==
    \E i \in 1 .. Len(source[s]._streams) : Stream_is_closed(w, source[s]._streams[i])

\* Barrier.is_closed of the Barrier that is the source of stream s
Barrier_is_closed(w, s) ==
    \A i \in 1 .. Len(source[s]._streams) : Stream_is_closed(w, source[s]._streams[i])

\* the dictionary comprehension pulling from every stream, closed or not
query_streams_unchecked(w, names, i, frame) ==
    IF i > Len(names) THEN Return(w, frame)
    ELSE LET r == Stream_get_frame([w EXCEPT !.pulls = Append(@, names[i])],
                                   names[i])
         IN  IF r.exc # "none" THEN Raise(r.w, r.exc)
             ELSE query_streams_unchecked(r.w, names, i + 1, (names[i] :> r.ret) @@ frame)

\* the dictionary comprehension visiting the streams last to first
query_streams_reversed(w, names, i, frame) ==
    IF i > Len(names) THEN Return(w, frame)
    ELSE LET n == names[Len(names) + 1 - i]
         IN  IF Stream_is_closed(w, n)
             THEN query_streams_reversed(w, names, i + 1, (n :> None) @@ frame)
             ELSE LET r == Stream_get_frame([w EXCEPT !.pulls = Append(@, n)], n)
                  IN  IF r.exc # "none" THEN Raise(r.w, r.exc)
                      ELSE query_streams_reversed(r.w, names, i + 1, (n :> r.ret) @@ frame)

\* the dictionary comprehension of Barrier._query_frame_from_streams from the
\* i-th stream of names on, frame holding the slots filled so far
query_streams(w, names, i, frame) ==
    IF i > Len(names) THEN Return(w, frame)
    ELSE IF Stream_is_closed(w, names[i])
         THEN query_streams(w, names, i + 1, (names[i] :> None) @@ frame)
         ELSE LET r == Stream_get_frame([w EXCEPT !.pulls = Append(@, names[i])],
                                        names[i])
              IN  IF r.exc # "none" THEN Raise(r.w, r.exc)
                  ELSE query_streams(r.w, names, i + 1, (names[i] :> r.ret) @@ frame)

\* Barrier._query_frame_from_streams
Barrier_query_frame_from_streams(w, s) ==
    query_streams(w, source[s]._streams, 1, <<>>)

\* the windowing handlers of the pipelines explored, given the buffer: the
\* decision and the buffer as the handler leaves it
barrier_handler(name, names, buffer) ==
    CASE name = "always_open" -> [open |-> TRUE, buffer |-> buffer]
      [] name = "open_when_two" -> [open |-> Len(buffer) >= 2, buffer |-> buffer]
      [] name = "drop_until_equal" ->
            LET latest_frame == buffer[Len(buffer)]
                master == latest_frame[names[Len(names)]]
                all_equal == \A i \in 1 .. Len(names) - 1 : latest_frame[names[i]] = master
            IN  IF all_equal
                THEN [open |-> TRUE, buffer |-> buffer]
                ELSE [open |-> FALSE, buffer |-> SubSeq(buffer, 1, Len(buffer) - 1)]

\* Barrier._is_barrier_open calling the handler with the newest mapping only
Barrier_is_barrier_open_newest(w, s) ==
    LET newest == <<w._queue[Len(w._queue)]>>
        h == barrier_handler(source[s]._handler, source[s]._streams, newest)
    IN  Return([w EXCEPT !.windows = Append(@, newest)], h.open)

\* Barrier._is_barrier_open: the handler is called with self._queue
Barrier_is_barrier_open(w, s) ==
    LET h == barrier_handler(source[s]._handler, source[s]._streams, w._queue)
    IN  Return([w EXCEPT !._queue = h.buffer, !.windows = Append(@, w._queue)], h.open)

\* Barrier.get_frame that returns the mapping it assembled when the handler
\* answers not open
Barrier_get_frame_returns_pulled(w, s) ==
    LET q == Barrier_query_frame_from_streams(w, s)
    IN  IF q.exc # "none" THEN q
        ELSE LET w1 == [q.w EXCEPT !._queue = Append(@, q.ret)]
                 o  == Barrier_is_barrier_open(w1, s)
             IN  IF o.ret
                 THEN Return([o.w EXCEPT !._queue = Tail(@)], Head(o.w._queue))
                 ELSE Return(o.w, q.ret)

\* Barrier.get_frame that releases the newest mapping (pop() for pop(0))
Barrier_get_frame_lifo(w, s) ==
    LET q == Barrier_query_frame_from_streams(w, s)
    IN  IF q.exc # "none" THEN q
        ELSE LET w1 == [q.w EXCEPT !._queue = Append(@, q.ret)]
                 o  == Barrier_is_barrier_open(w1, s)
             IN  IF o.ret
                 THEN Return([o.w EXCEPT !._queue = SubSeq(@, 1, Len(@) - 1)],
                             o.w._queue[Len(o.w._queue)])
                 ELSE ReturnNone(o.w)

\* Barrier.get_frame that takes the newest mapping out of the buffer when the
\* handler answers not open
Barrier_get_frame_forgets(w, s) ==
    LET q == Barrier_query_frame_from_streams(w, s)
    IN  IF q.exc # "none" THEN q
        ELSE LET w1 == [q.w EXCEPT !._queue = Append(@, q.ret)]
                 o  == Barrier_is_barrier_open(w1, s)
             IN  IF o.ret
                 THEN Return([o.w EXCEPT !._queue = Tail(@)], Head(o.w._queue))
                 ELSE ReturnNone([o.w EXCEPT !._queue =
                                     IF @ = <<>> THEN @ ELSE SubSeq(@, 1, Len(@) - 1)])

\* Barrier.get_frame that checks is_closed first, as Source.get_frame does
Barrier_get_frame_checked(w, s) ==
    IF Barrier_is_closed(w, s) THEN Raise(w, "SourceIsClosedException")
    ELSE LET q == Barrier_query_frame_from_streams(w, s)
         IN  IF q.exc # "none" THEN q
             ELSE LET w1 == [q.w EXCEPT !._queue = Append(@, q.ret)]
                      o  == Barrier_is_barrier_open(w1, s)
                  IN  IF o.ret
                      THEN Return([o.w EXCEPT !._queue = Tail(@)], Head(o.w._queue))
                      ELSE ReturnNone(o.w)

\* Barrier.get_frame that empties the buffer when a pull raises
Barrier_get_frame_clears(w, s) ==
    LET q == Barrier_query_frame_from_streams(w, s)
    IN  IF q.exc # "none" THEN Raise([q.w EXCEPT !._queue = <<>>], q.exc)
        ELSE LET w1 == [q.w EXCEPT !._queue = Append(@, q.ret)]
                 o  == Barrier_is_barrier_open(w1, s)
             IN  IF o.ret
                 THEN Return([o.w EXCEPT !._queue = Tail(@)], Head(o.w._queue))
                 ELSE ReturnNone(o.w)

\* Barrier.get_frame
Barrier_get_frame(w, s) ==
    LET q == Barrier_query_frame_from_streams(w, s)
    IN  IF q.exc # "none" THEN q
        ELSE LET w1 == [q.w EXCEPT !._queue = Append(@, q.ret)]
                 o  == Barrier_is_barrier_open(w1, s)
             IN  IF o.ret
                 THEN Return([o.w EXCEPT !._queue = Tail(@)], Head(o.w._queue))
                 ELSE ReturnNone(o.w)

\* Stream.is_closed that also reports closed once a frame was dropped
Stream_is_closed_after_drop(w, s) ==
    \/ IF source[s].kind = "Barrier" THEN Barrier_is_closed(w, s)
                                     ELSE Source_is_closed(w, s)
    \/ (last.stream = s /\ last.exc = "none" /\ last.none)

\* Stream.is_closed
Stream_is_closed(w, s) ==
    IF source[s].kind = "Barrier" THEN Barrier_is_closed(w, s)
                                  ELSE Source_is_closed(w, s)

\* Stream.get_frame that undoes the call when an element raises
Stream_get_frame_rollback(w, s) ==
    LET r == IF source[s].kind = "Barrier" THEN Barrier_get_frame(w, s)
                                           ELSE Source_get_frame(w, s)
    IN  IF r.exc # "none" THEN r
        ELSE LET t == fold_elements(r.w, s, 1, r)
             IN  IF t.exc # "none" THEN Raise(w, t.exc) ELSE t

\* Stream.get_frame
Stream_get_frame(w, s) ==
    LET r == IF source[s].kind = "Barrier" THEN Barrier_get_frame(w, s)
                                           ELSE Source_get_frame(w, s)
    IN  IF r.exc # "none" THEN r
        ELSE fold_elements(r.w, s, 1, r)

\* Sink.process as far as the driver sees it: the sink's handler is given the
\* frame, or the Barrier's error_sink raises
Sink_process(log, s, frame) ==
    IF sink[s] = "error_sink"
    THEN [log |-> log, exc |-> "Exception"]
    ELSE [log |-> [log EXCEPT ![s] = Append(@, frame)], exc |-> "none"]

\* ---------------------------------------------------------------- an element on its own
\* a handler that answers with the arguments it was invoked with
echo(argv, kwargs) == [args |-> argv, kwargs |-> kwargs]

\* PipelineElement.call_handler(*args) of the element e with the handler echo;
\* unpacking args_head from no captured argument raises ValueError
PipelineElement_call_handler(e, args) ==
    IF e.has_self /\ e._handler_args = <<>>
    THEN [called |-> TRUE, args |-> args, exc |-> "ValueError",
          ret |-> echo(<<>>, {})]
    ELSE [called |-> TRUE, args |-> args, exc |-> "none",
          ret |-> echo(args_for_handler(e, args), e._handler_kwargs)]

\* Source.__init__ that accepts a Source without a closer
Source_init_unchecked(e) ==
    [built |-> TRUE, exc |-> "none", all_at_once |-> e.all_at_once,
     closer |-> e.closer, is_closed |-> "unasked"]

\* Source.__init__ with the arguments of e: the Source object, or ValueError
Source_init(e) ==
    IF ~ e.all_at_once /\ e.closer = "None"
    THEN [built |-> FALSE, exc |-> "ValueError", all_at_once |-> e.all_at_once,
          closer |-> e.closer, is_closed |-> "unasked"]
    ELSE [built |-> TRUE, exc |-> "none", all_at_once |-> e.all_at_once,
          closer |-> e.closer, is_closed |-> "unasked"]

\* Source.is_closed of the Source object o before its first pull: calling a
\* closer that is None raises TypeError
Source_is_closed_of(o) ==
    IF o.all_at_once THEN "False"
    ELSE CASE o.closer = "None"  -> "TypeError"
           [] o.closer = "never" -> "False"
           [] o.closer = "always" -> "True"

\* ---------------------------------------------------------------- pipelines
Vals == 0 .. MaxVal

SeqsUpTo(S, n) == UNION {[1 .. k -> S] : k \in 0 .. n}

Range(n) == [i \in 1 .. n |-> i - 1]

Ones(n) == [i \in 1 .. n |-> 1]

NoData == [is_None |-> TRUE, list |-> <<>>]

Element(cls, h, hargs, fatal) ==
    [cls |-> cls, _handler |-> h, _handler_args |-> hargs, has_self |-> FALSE,
     _is_fatal |-> fatal, is_split_stream |-> FALSE]

add_number(n)   == Element("Transformer", "add_number", <<n>>, FALSE)
none_if_zero    == Element("Transformer", "none_if_zero", <<>>, FALSE)
greater_five_plus_one == Element("Transformer", "greater_five_plus_one", <<>>, FALSE)
is_even(fatal)  == Element("Gate", "is_even", <<>>, fatal)
check_greater_than_zero(fatal) == Element("Gate", "check_greater_than_zero", <<>>, fatal)
\* a gate for the mappings of a Barrier: every stream gave a frame
slots_filled    == Element("Gate", "slots_filled", <<>>, FALSE)

\* the passthrough Stream.split appends to the origin
split_transformer ==
    [cls |-> "Transformer", _handler |-> "transformer", _handler_args |-> <<Receiver>>,
     has_self |-> TRUE, _is_fatal |-> FALSE, is_split_stream |-> TRUE]

Elems == {add_number(1), none_if_zero, is_even(FALSE), is_even(TRUE),
          check_greater_than_zero(FALSE)}

\* stream_source(all_at_once=True) whose handler returns content
BatchSource(content) ==
    [kind |-> "Source", all_at_once |-> TRUE, content |-> content,
     _handler |-> "my_source", _streams |-> <<>>]
\* the Source Stream.split gives the derived stream
SplitSource ==
    [kind |-> "Source", all_at_once |-> FALSE, content |-> <<>>,
     _handler |-> "source", _streams |-> <<>>]
\* stream_barrier: the Barrier with windowing handler h over the streams names
BarrierSource(h, names) ==
    [kind |-> "Barrier", all_at_once |-> FALSE, content |-> <<>>,
     _handler |-> h, _streams |-> names]
\* the source of a stream the pipeline does not have
NoSource ==
    [kind |-> "none", all_at_once |-> TRUE, content |-> <<>>,
     _handler |-> "none", _streams |-> <<>>]

NoCall == [stream |-> "none", closed_before |-> FALSE, exc |-> "none",
           none |-> TRUE, frame |-> None, calls |-> <<>>, windows |-> <<>>,
           pulls |-> <<>>, by_run |-> FALSE]

\* no call has been made on the pipeline yet
Untouched ==
    /\ \A s \in AllStreams : _data[s] = NoData
    /\ frames = <<>>
    /\ _queue = <<>>
    /\ last.stream = "none"

\* no element is built or called on its own
NoElement ==
    [_handler_args |-> <<>>, _handler_kwargs |-> {}, has_self |-> FALSE,
     all_at_once |-> TRUE, closer |-> "None"]

NoSourceObject ==
    [built |-> FALSE, exc |-> "none", all_at_once |-> TRUE, closer |-> "None",
     is_closed |-> "unasked"]

NoHandlerCall == [called |-> FALSE, args |-> <<>>, exc |-> "none", ret |-> echo(<<>>, {})]

InitNoElement ==
    /\ element = NoElement
    /\ new_source = NoSourceObject
    /\ handler_call = NoHandlerCall

\* what every pipeline starts with, none of it driven yet
InitCommon ==
    /\ _data = [s \in AllStreams |-> NoData]
    /\ frames = <<>>
    /\ _queue = <<>>
    /\ sink_result = [s \in AllStreams |-> <<>>]
    /\ run_stream = "none"
    /\ run_status = "idle"
    /\ run_pulls = 0
    /\ run_sunk = 0
    /\ run_fresh = FALSE
    /\ returned = [s \in AllStreams |-> <<>>]
    /\ last = NoCall

\* the keyword arguments an element is created with
KwArgs == {{}, {<<"number", MaxVal>>}}

\* the closer a Source is created with: None, lambda: False or lambda: True
Closers == {"None", "never", "always"}

\* an element created with bounded captured arguments, not part of a pipeline
\* (TestSource.test_creation, TestTransformer.test_creation_named/_unnamed)
InitElement ==
    /\ streams = {}
    /\ source = [s \in AllStreams |-> NoSource]
    /\ elements = [s \in AllStreams |-> <<>>]
    /\ sink = [s \in AllStreams |-> "none"]
    /\ InitCommon
    /\ \E captured \in SeqsUpTo(Vals, MaxArgs), kw \in KwArgs, has_self \in BOOLEAN,
          all_at_once \in BOOLEAN, c \in Closers :
         element = [_handler_args |-> captured, _handler_kwargs |-> kw,
                    has_self |-> has_self, all_at_once |-> all_at_once, closer |-> c]
    /\ new_source = NoSourceObject
    /\ handler_call = NoHandlerCall

\* one Stream: a batch Source, up to MaxElems elements, a collecting Sink
\* (the pipelines of test_basic_stream.py and TestStream)
InitStream ==
    /\ streams = {"stream_a"}
    /\ \E content \in SeqsUpTo(Vals, MaxLen) \cup {Range(20)} :
         source = [s \in AllStreams |->
                     IF s = "stream_a" THEN BatchSource(content) ELSE NoSource]
    /\ \E es \in SeqsUpTo(Elems, MaxElems) \cup {<<add_number(10), is_even(FALSE)>>} :
         /\ (Len(source["stream_a"].content) > MaxLen
               => es = <<add_number(10), is_even(FALSE)>>)
         /\ elements = [s \in AllStreams |-> IF s = "stream_a" THEN es ELSE <<>>]
    /\ sink = [s \in AllStreams |-> IF s = "stream_a" THEN "collect" ELSE "none"]
    /\ InitCommon
    /\ InitNoElement

\* stream_a with a split taken after its elements pre and before its elements
\* post, and the derived stream stream_b (TestStream.test_stream_split)
InitSplit ==
    /\ streams = {"stream_a", "stream_b"}
    /\ \E content \in SeqsUpTo(Vals, MaxSplitLen) :
         source = [s \in AllStreams |->
                     CASE s = "stream_a" -> BatchSource(content)
                       [] s = "stream_b" -> SplitSource
                       [] OTHER -> NoSource]
    /\ \E pre \in {<<>>, <<is_even(FALSE)>>, <<add_number(1)>>},
          post \in {<<>>, <<is_even(FALSE)>>, <<is_even(TRUE)>>, <<none_if_zero>>},
          es \in {<<>>, <<is_even(FALSE)>>} :
         elements = [s \in AllStreams |->
                       CASE s = "stream_a" -> pre \o <<split_transformer>> \o post
                         [] s = "stream_b" -> es
                         [] OTHER -> <<>>]
    /\ sink = [s \in AllStreams |-> IF s \in streams THEN "collect" ELSE "none"]
    /\ InitCommon
    /\ InitNoElement

BarrierHandlers == {"always_open", "open_when_two", "drop_until_equal"}

\* a Barrier over stream_a and stream_b as the source of result_stream
\* (TestBarrier); stream_b is a batch stream or the split of stream_a
\* (example/hello_world.py)
InitBarrier ==
    /\ streams = AllStreams
    /\ \/ \E ca \in {Range(n) : n \in 0 .. MaxBarrierLen}
                       \cup {Ones(n) : n \in 1 .. MaxBarrierLen},
             cb \in {Range(n) : n \in 0 .. MaxBarrierLen},
             hes \in ({"always_open"} \X
                        {<<<<>>, <<>>, <<>>>>, <<<<is_even(TRUE)>>, <<>>, <<>>>>,
                         <<<<>>, <<is_even(TRUE)>>, <<>>>>,
                         <<<<>>, <<is_even(FALSE)>>, <<>>>>,
                         <<<<is_even(FALSE)>>, <<>>, <<>>>>})
                     \cup ({"open_when_two"} \X
                        {<<<<>>, <<>>, <<>>>>, <<<<>>, <<is_even(TRUE)>>, <<>>>>,
                         <<<<>>, <<none_if_zero, add_number(1)>>, <<slots_filled>>>>})
                     \cup ({"drop_until_equal"} \X
                        {<<<<>>, <<>>, <<>>>>, <<<<>>, <<is_even(FALSE)>>, <<>>>>}) :
            /\ source = [s \in AllStreams |->
                           CASE s = "stream_a" -> BatchSource(ca)
                             [] s = "stream_b" -> BatchSource(cb)
                             [] OTHER -> BarrierSource(hes[1], <<"stream_a", "stream_b">>)]
            /\ elements = [s \in AllStreams |->
                             CASE s = "stream_a" -> hes[2][1]
                               [] s = "stream_b" -> hes[2][2]
                               [] OTHER -> hes[2][3]]
       \/ \* TestBarrier.test_drop_until_in_synch
          /\ source = [s \in AllStreams |->
                         CASE s = "stream_a" -> BatchSource(Range(10))
                           [] s = "stream_b" -> BatchSource(Range(10))
                           [] OTHER -> BarrierSource("drop_until_equal",
                                                     <<"stream_a", "stream_b">>)]
          /\ elements = [s \in AllStreams |->
                           IF s = "stream_b" THEN <<greater_five_plus_one>> ELSE <<>>]
       \/ \E ca \in {Range(n) : n \in 0 .. MaxBarrierLen},
             h \in {"always_open", "open_when_two"},
             names \in {<<"stream_a", "stream_b">>, <<"stream_b", "stream_a">>},
             pre \in {<<>>, <<add_number(1)>>}, eb \in {<<>>, <<is_even(FALSE)>>} :
            /\ source = [s \in AllStreams |->
                           CASE s = "stream_a" -> BatchSource(ca)
                             [] s = "stream_b" -> SplitSource
                             [] OTHER -> BarrierSource(h, names)]
            /\ elements = [s \in AllStreams |->
                             CASE s = "stream_a" -> pre \o <<split_transformer>>
                               [] s = "stream_b" -> eb
                               [] OTHER -> <<>>]
    /\ sink = [s \in AllStreams |->
                IF s = "result_stream" THEN "collect" ELSE "error_sink"]
    /\ InitCommon
    /\ InitNoElement

\* ---------------------------------------------------------------- actions
\* the record of a get_frame call on s that gave r from state w
CallRecord(w, s, r, by_run) ==
    [stream |-> s, closed_before |-> Stream_is_closed(w, s), exc |-> r.exc,
     none |-> r.none, frame |-> r.ret, calls |-> r.w.calls,
     windows |-> r.w.windows, pulls |-> r.w.pulls, by_run |-> by_run]

\* the driver calls s.get_frame()
GetFrame(s) ==
    /\ running = "none"
    /\ LET r == Stream_get_frame(World, s)
       IN  /\ _data' = r.w._data
           /\ frames' = r.w.frames
           /\ _queue' = r.w._queue
           /\ returned' = r.w.returned
           /\ last' = CallRecord(World, s, r, FALSE)
    /\ UNCHANGED <<config, sink_result, run_stream, run_status, run_pulls, run_sunk,
                   run_fresh, standalone>>

\* the driver calls s.run(): Stream.run is entered
Run(s) ==
    /\ running = "none"
    /\ run_stream' = s
    /\ run_status' = "running"
    /\ run_pulls' = 0
    /\ run_sunk' = 0
    /\ run_fresh' = Untouched
    /\ UNCHANGED <<config, _data, frames, _queue, sink_result, returned, last,
                   standalone>>

\* a while condition of Stream.run that does not ask is_closed
run_continues_always(w, s) == TRUE

\* the while condition of Stream.run
run_continues(w, s) == ~ Stream_is_closed(w, s)

\* Stream.run handing every result of get_frame to the sink, None included
run_delivers_none(r) == r.exc = "none"

\* the condition under which Stream.run hands the result r of get_frame to
\* the sink
run_delivers(r) == r.exc = "none" /\ ~ r.none

\* one evaluation of the while condition of Stream.run and, if the stream is
\* not closed, one execution of the loop body
Stream_run(s) ==
    /\ running = s
    /\ IF ~ run_continues(World, s)
       THEN /\ run_status' = "returned"
            /\ UNCHANGED <<_data, frames, _queue, sink_result, returned, last,
                           run_pulls, run_sunk>>
       ELSE LET r == Stream_get_frame(World, s)
                p == IF run_delivers(r)
                     THEN Sink_process(sink_result, s, r.ret)
                     ELSE [log |-> sink_result, exc |-> r.exc]
            IN  /\ _data' = r.w._data
                /\ frames' = r.w.frames
                /\ _queue' = r.w._queue
                /\ returned' = r.w.returned
                /\ last' = CallRecord(World, s, r, TRUE)
                /\ run_pulls' = run_pulls + 1
                /\ sink_result' = p.log
                /\ run_sunk' = IF run_delivers(r) THEN run_sunk + 1 ELSE run_sunk
                /\ run_status' = IF p.exc = "none" THEN "running" ELSE p.exc
    /\ UNCHANGED <<config, run_stream, run_fresh, standalone>>

Next ==
    \E s \in streams :
        \/ GetFrame(s)
        \/ Run(s)
        \/ Stream_run(s)

\* a driver that only calls run()
NextRuns ==
    \E s \in streams :
        \/ Run(s)
        \/ Stream_run(s)

\* Source(handler, args, kwargs, all_at_once, closer) is called for element
NewSource ==
    /\ new_source' = Source_init(element)
    /\ UNCHANGED <<config, _data, frames, _queue, sink_result, run_stream, run_status,
                   run_pulls, run_sunk, run_fresh, returned, last, element,
                   handler_call>>

\* is_closed() is called on the Source object that was built
IsClosed ==
    /\ new_source.built
    /\ new_source' = [new_source EXCEPT !.is_closed = Source_is_closed_of(new_source)]
    /\ UNCHANGED <<config, _data, frames, _queue, sink_result, run_stream, run_status,
                   run_pulls, run_sunk, run_fresh, returned, last, element,
                   handler_call>>

\* element.call_handler(*args) is called
CallHandler(args) ==
    /\ handler_call' = PipelineElement_call_handler(element, args)
    /\ UNCHANGED <<config, _data, frames, _queue, sink_result, run_stream, run_status,
                   run_pulls, run_sunk, run_fresh, returned, last, element,
                   new_source>>

NextElement ==
    \/ NewSource
    \/ IsClosed
    \/ \E args \in SeqsUpTo(Vals, MaxArgs) : CallHandler(args)

Spec == InitStream /\ [][Next]_vars

SpecElement == InitElement /\ [][NextElement]_vars

SpecSplit == InitSplit /\ [][Next]_vars

SpecSplitRuns == InitSplit /\ [][NextRuns]_vars

SpecBarrier == InitBarrier /\ [][Next]_vars

\* ---------------------------------------------------------------- claims
\* the collection the batch Source of stream s is built from
content(s) == source[s].content

\* stream s is closed in the current state
closed(s) == Stream_is_closed(World, s)

\* the latest get_frame call was made on s
called(s) == last.stream = s

\* C1: a batch Source built from a collection of N frames (N = 0 included)
\* hands out exactly the N frames, in the collection's order, before it
\* reports closed; it reports open before every successful get_frame, and a
\* get_frame made once it reports closed raises SourceIsClosedException and
\* takes nothing.
C1_BatchSourceDeliversAll ==
    \A s \in streams :
        LET N == Len(content(s)) IN
        /\ Len(returned[s]) <= N
        /\ returned[s] = SubSeq(content(s), 1, Len(returned[s]))
        /\ Source_is_closed(World, s) => returned[s] = content(s)
        /\ (N > 0 /\ Len(returned[s]) = N) => Source_is_closed(World, s)
        /\ (called(s) /\ last.exc \notin {"SourceIsClosedException", "IndexError"})
              => ~ last.closed_before
        /\ (called(s) /\ last.closed_before)
              => (last.exc = "SourceIsClosedException" /\ returned[s] = content(s))

\* C1 witness: a longest collection with two different frames was handed out
\* whole, and a get_frame made after that was refused
C1_Witness ==
    /\ called("stream_a")
    /\ last.closed_before
    /\ last.exc = "SourceIsClosedException"
    /\ Len(content("stream_a")) = MaxLen
    /\ content("stream_a")[1] # content("stream_a")[MaxLen]
    /\ returned["stream_a"] = content("stream_a")

\* C2: closure is monotonic: no call makes a stream that reports closed (a
\* batch stream, the split-derived stream, or the stream fed by the Barrier
\* over them) report open again.
C2_ClosureMonotonic ==
    [][\A s \in streams : closed(s) => closed(s)']_vars

\* C2 witness: the Barrier over a stream and its split reports closed, so do
\* both its streams, and a get_frame was made on it after it had closed
C2_Witness ==
    /\ ~ source["stream_b"].all_at_once
    /\ Len(content("stream_a")) = MaxBarrierLen
    /\ \A s \in streams : closed(s)
    /\ called("result_stream")
    /\ last.closed_before

\* the element invocations the get_frame call c made on c's own stream
own_calls(c) == SelectSeq(c.calls, LAMBDA x : x.stream = c.stream)

\* the invocation x was of a gate (fatal or not, as given) whose predicate is
\* false for the frame it was invoked with
rejected(x, fatal) ==
    LET e == elements[x.stream][x.idx]
    IN  /\ e.cls = "Gate"
        /\ e._is_fatal = fatal
        /\ ~ handler(e._handler, <<x.frame>>)

\* a gate of the call's stream rejected the frame in the get_frame call c
gate_rejected(c, fatal) ==
    \E j \in 1 .. Len(own_calls(c)) : rejected(own_calls(c)[j], fatal)

\* every gate of the call's stream was asked in the get_frame call c and its
\* predicate is true for the frame it was asked about
passed_every_gate(c) ==
    \A i \in 1 .. Len(elements[c.stream]) :
        elements[c.stream][i].cls = "Gate" =>
            \E j \in 1 .. Len(own_calls(c)) :
                /\ own_calls(c)[j].idx = i
                /\ handler(elements[c.stream][i]._handler, <<own_calls(c)[j].frame>>)

\* C3: the Sink of a stream is only ever handed the frame of a get_frame call
\* in which every gate of the stream found its predicate true; a frame a
\* (non-fatal) gate rejects is never handed to the Sink.
C3_RejectedFrameNeverSunk ==
    [][\A s \in streams :
          sink_result'[s] # sink_result[s]
            => /\ last'.stream = s
               /\ passed_every_gate(last')
               /\ ~ gate_rejected(last', FALSE)
               /\ sink_result'[s] = Append(sink_result[s], last'.frame)]_vars

\* C3 witness: in a run() the Sink was handed a frame, and the latest frame
\* pulled was rejected by a non-fatal gate and is not in the Sink
C3_Witness ==
    /\ last.by_run
    /\ gate_rejected(last, FALSE)
    /\ last.none
    /\ run_sunk = 1
    /\ run_pulls = 2
    /\ Len(sink_result["stream_a"]) = 1

\* C4: when a fatal gate's predicate is false for a frame pulled by run(),
\* that run() ends with GateFailedException: the frame is not handed to the
\* Sink, no element after the gate is invoked for it, and the run() makes no
\* further pull and no further Sink call.
C4_FatalGateEndsRun ==
    [][/\ (run_pulls' = run_pulls + 1 /\ gate_rejected(last', TRUE))
            => /\ last'.exc = "GateFailedException"
               /\ run_status' = "GateFailedException"
               /\ sink_result' = sink_result
               /\ run_sunk' = run_sunk
               /\ rejected(own_calls(last')[Len(own_calls(last'))], TRUE)
       /\ (run_status = "GateFailedException" /\ run_status' = "GateFailedException")
            => /\ run_pulls' = run_pulls
               /\ run_sunk' = run_sunk
               /\ sink_result' = sink_result]_vars

\* C4 witness: a run() ended with GateFailedException at a fatal gate that
\* has an element after it, with a frame left in the Source
C4_Witness ==
    /\ run_status = "GateFailedException"
    /\ last.by_run
    /\ gate_rejected(last, TRUE)
    /\ run_pulls >= 1
    /\ Len(elements["stream_a"]) = 2
    /\ elements["stream_a"][1]._is_fatal
    /\ ~ closed("stream_a")

\* the source of the latest get_frame call handed out a frame
source_gave_frame ==
    /\ last.stream \in streams
    /\ last.exc \in {"none", "GateFailedException"}

\* C8: a stream is closed exactly when its batch Source has been materialized
\* and has handed out its whole collection, whatever its elements are and
\* however many of the frames were dropped; in particular it is still open
\* after a drop as long as the Source has a frame left.
C8_ClosureFollowsSourceOnly ==
    \A s \in streams :
        /\ closed(s) <=> (~ _data[s].is_None /\ Len(returned[s]) = Len(content(s)))
        /\ (called(s) /\ gate_rejected(last, FALSE))
              => (closed(s) <=> _data[s].list = <<>>)

\* C8 witness: a non-fatal gate has dropped every frame run() has pulled, the
\* Sink has nothing and the stream, with a frame left, is still open
C8_Witness ==
    /\ run_status = "running"
    /\ run_pulls = MaxLen - 1
    /\ Len(returned["stream_a"]) = run_pulls
    /\ last.by_run
    /\ gate_rejected(last, FALSE)
    /\ sink_result["stream_a"] = <<>>
    /\ ~ closed("stream_a")

\* C10: get_frame invokes the stream's elements in the order they were added,
\* the first with the Source's frame and each later one with the result of
\* the one before; once an element yields None no later element is invoked
\* and the call returns None; otherwise the call returns the result of the
\* last element.
C10_ShortCircuitOnNone ==
    source_gave_frame =>
        LET c  == own_calls(last)
            n  == Len(c)
            es == elements[last.stream]
            f  == returned[last.stream][Len(returned[last.stream])]
        IN  /\ n <= Len(es)
            /\ \A j \in 1 .. n : c[j].idx = j
            /\ n > 0 => c[1].frame = f
            /\ \A j \in 2 .. n :
                  /\ ~ c[j - 1].none
                  /\ c[j - 1].exc = "none"
                  /\ c[j].frame = c[j - 1].out
            /\ last.exc = "none" =>
                  /\ n < Len(es) => (n > 0 /\ c[n].none /\ last.none)
                  /\ n = 0 => (~ last.none /\ last.frame = f)
                  /\ n > 0 => /\ last.none = c[n].none
                              /\ ~ last.none => last.frame = c[n].out

\* C10 witness: the first of two elements yielded None, the second was not
\* invoked and the call returned None
C10_Witness ==
    /\ source_gave_frame
    /\ Len(elements[last.stream]) = 2
    /\ Len(own_calls(last)) = 1
    /\ own_calls(last)[1].none
    /\ last.exc = "none"
    /\ last.none

\* the latest step was an iteration of run() that pulled a frame
run_pulled == run_pulls' = run_pulls + 1

\* C9: run() on a stream with a batch Source of N >= 1 frames never pulls
\* from a closed Source, takes one frame from the Source per pull (so it
\* cannot loop more than N times), hands the result of every pull that is
\* not None to the Sink, once and in pull order, and nothing else; it ends
\* only by returning, with the stream closed, or with the failure of a fatal
\* gate, and a run() that was the first call on the stream has made exactly
\* N pulls when it returns.
C9_RunDrainsSource ==
    /\ [][LET s == run_stream'
              N == Len(content(s))
          IN  /\ (run_status = "running" /\ run_status' = "running") => run_pulled
              /\ (run_pulled /\ N >= 1)
                    => /\ ~ closed(s)
                       /\ ~ last'.closed_before
                       /\ last'.exc \in {"none", "GateFailedException"}
                       /\ Len(returned'[s]) = Len(returned[s]) + 1
                       /\ IF last'.exc = "none" /\ ~ last'.none
                          THEN /\ sink_result'[s] = Append(sink_result[s], last'.frame)
                               /\ run_sunk' = run_sunk + 1
                          ELSE /\ sink_result' = sink_result
                               /\ run_sunk' = run_sunk
              /\ sink_result' # sink_result => run_pulled]_vars
    /\ []((run_stream \in streams /\ Len(content(run_stream)) >= 1) =>
            /\ run_status \in {"running", "returned", "GateFailedException"}
            /\ run_pulls <= Len(returned[run_stream])
            /\ Len(returned[run_stream]) <= Len(content(run_stream))
            /\ run_status = "returned" => closed(run_stream)
            /\ (run_fresh /\ run_status = "returned")
                  => run_pulls = Len(content(run_stream)))

\* C9 witness: a run() that was the first call on a stream with a longest
\* collection has returned after handing some but not all results to the Sink
C9_Witness ==
    /\ run_status = "returned"
    /\ run_fresh
    /\ Len(content("stream_a")) = MaxLen
    /\ run_pulls = MaxLen
    /\ run_sunk >= 1
    /\ run_sunk < run_pulls
    /\ Len(sink_result["stream_a"]) = run_sunk

\* the stream is a Transformer followed by a non-fatal Gate (the pipeline of
\* test_basic_stream.py)
transformer_then_gate(s) ==
    /\ Len(elements[s]) = 2
    /\ elements[s][1].cls = "Transformer"
    /\ elements[s][2].cls = "Gate"
    /\ ~ elements[s][2]._is_fatal

\* what the Sink of a Transformer-then-Gate stream s is to receive for the
\* Source frames fs: the transformed frames the gate's predicate accepts
expected(s, fs) ==
    LET f(x) == handler(elements[s][1]._handler, <<x>> \o elements[s][1]._handler_args)
        p(v) == v # None /\ handler(elements[s][2]._handler, <<v>>)
    IN  SelectSeq([i \in 1 .. Len(fs) |-> f(fs[i])], p)

\* C7: for a stream with a batch Source s1..sN (N >= 1), a Transformer f and
\* a non-fatal Gate p, a run() that is the first call on the stream ends
\* only by returning, after N pulls, and at every point of it the Sink has
\* received exactly the frames f(s_i) that satisfy p among the frames pulled,
\* in Source order, each once: all of them when it has returned.  For the
\* Source 0..19, f = add 10 and p = even that is 10, 12, .., 28.
C7_EndToEnd ==
    LET s == "stream_a" IN
    (transformer_then_gate(s) /\ run_fresh /\ content(s) # <<>>)
        => /\ run_status \in {"running", "returned"}
           /\ run_pulls = Len(returned[s])
           /\ sink_result[s] = expected(s, returned[s])
           /\ run_pulls <= Len(content(s))
           /\ run_status = "returned" =>
                 /\ returned[s] = content(s)
                 /\ (content(s) = Range(20)
                       => sink_result[s] = <<10, 12, 14, 16, 18, 20, 22, 24, 26, 28>>)

\* C7 witness: the run() of test_basic_stream.py has returned
C7_Witness ==
    /\ transformer_then_gate("stream_a")
    /\ content("stream_a") = Range(20)
    /\ run_fresh
    /\ run_status = "returned"
    /\ Len(sink_result["stream_a"]) = 10

\* the split is the last element of stream_a, so it is taken right before
\* the Sink, and the derived stream has no element
split_before_sink ==
    /\ ~ source["stream_b"].all_at_once
    /\ elements["stream_a"][Len(elements["stream_a"])].is_split_stream
    /\ elements["stream_b"] = <<>>

\* C5: with a split taken right before the Sink of an origin stream with a
\* non-empty batch Source, run() of the origin and run() of the derived
\* stream each run to completion in either order (neither ends with an
\* error), and once both have, the derived stream's Sink has received
\* exactly the sequence the origin's Sink has received.
C5_SplitSameSequenceAnyOrder ==
    (split_before_sink /\ content("stream_a") # <<>>)
        => /\ run_status \in {"idle", "running", "returned"}
           /\ (run_status = "returned" /\ closed("stream_a") /\ closed("stream_b"))
                 => sink_result["stream_b"] = sink_result["stream_a"]

\* the Barrier of result_stream has the handler drop_until_equal of
\* TestBarrier.test_drop_until_in_synch
drops_until_equal == source["result_stream"]._handler = "drop_until_equal"

\* the pipeline of TestBarrier.test_drop_until_in_synch
in_synch_test ==
    /\ drops_until_equal
    /\ content("stream_a") = Range(10)
    /\ content("stream_b") = Range(10)
    /\ elements["stream_b"] = <<greater_five_plus_one>>

\* the mapping with the same frame v of both streams
both(v) == [stream_a |-> v, stream_b |-> v]

\* C6: with the handler that drops the newest mapping and answers not open
\* when the newest frames of stream_a and stream_b differ, every get_frame of
\* the Barrier assembles one mapping (None for a stream that is closed, else
\* the frame pulled from it), returns None when the two frames differ and
\* that mapping when they agree, and leaves the buffer empty.  For the
\* streams 0..9 and 0..9 offset by one below 5, the results are 5 times None
\* and then the 5 mappings with equal frames 5..9, and the Barrier reports
\* closed after the 10th call and not before.
C6_DropUntilInSynch ==
    /\ [][(/\ drops_until_equal
           /\ last'.stream = "result_stream"
           /\ last'.exc = "none"
           /\ (last' # last \/ returned' # returned))
          => LET m == last'.windows[1][Len(last'.windows[1])]
             IN  /\ Len(last'.windows) = 1
                 /\ Len(last'.windows[1]) = 1
                 /\ \A n \in {"stream_a", "stream_b"} :
                       m[n] = IF closed(n) THEN None
                                           ELSE Stream_get_frame(World, n).ret
                 /\ m["stream_a"] # m["stream_b"] => last'.none
                 /\ m["stream_a"] = m["stream_b"]
                       => (~ last'.none /\ last'.frame = m)
                 /\ _queue' = <<>>]_vars
    /\ []((in_synch_test /\ run_fresh /\ run_stream = "result_stream")
            => /\ run_status \in {"running", "returned"}
               /\ run_pulls <= 10
               /\ run_sunk = IF run_pulls <= 5 THEN 0 ELSE run_pulls - 5
               /\ sink_result["result_stream"] = [i \in 1 .. run_sunk |-> both(4 + i)]
               /\ closed("result_stream") <=> run_pulls = 10)

\* C6 witness: the run of the test pipeline has made its 10 calls, 5 of
\* which gave a mapping, and the Barrier is closed
C6_Witness ==
    /\ in_synch_test
    /\ run_fresh
    /\ run_stream = "result_stream"
    /\ run_status = "returned"
    /\ run_pulls = 10
    /\ run_sunk = 5
    /\ closed("result_stream")

\* the step is a get_frame call, made by the driver or by run()
get_frame_called ==
    \/ run_pulls' = run_pulls + 1
    \/ returned' # returned
    \/ _queue' # _queue
    \/ last'.stream # last.stream
    \/ last'.exc # last.exc
    \/ last'.none # last.none
    \/ last'.pulls # last.pulls
    \/ (~ last.none /\ last'.frame # last.frame)

\* C11: None is never handed on as a frame.  In every get_frame call, an
\* element is invoked only with a frame that is not None: the first element
\* of a stream only if the stream's Source (a Barrier included) returned a
\* frame, a later element only if the element before it returned one.  And
\* whatever a Sink is handed is the result of a get_frame call that was not
\* None.
C11_NoFrameNeverPayload ==
    [][/\ get_frame_called =>
            \A j \in 1 .. Len(last'.calls) :
                LET x == last'.calls[j] IN
                /\ x.idx = 1 =>
                      IF source[x.stream].kind = "Barrier"
                      THEN ~ Barrier_get_frame(World, x.stream).none
                      ELSE x.frame # None
                /\ x.idx > 1 =>
                      \E k \in 1 .. j - 1 :
                          /\ last'.calls[k].stream = x.stream
                          /\ last'.calls[k].idx = x.idx - 1
                          /\ ~ last'.calls[k].none
                          /\ \A l \in k + 1 .. j - 1 : last'.calls[l].stream # x.stream
       /\ \A s \in streams :
            sink_result'[s] # sink_result[s]
              => /\ last'.stream = s
                 /\ ~ last'.none
                 /\ sink_result'[s] = Append(sink_result[s], last'.frame)
                 /\ source[s].kind = "Source" => last'.frame # None]_vars

\* C11 witness: in a pull of run() on the Barrier's stream a transformer of
\* stream_b returned None and the element after it was not invoked, the
\* Barrier's handler answered not open, so the Barrier returned None, the
\* gate of the Barrier's stream was not invoked and the Sink was handed
\* nothing
C11_Witness ==
    /\ last.stream = "result_stream"
    /\ last.by_run
    /\ last.exc = "none"
    /\ last.none
    /\ Len(last.windows) = 1
    /\ elements["result_stream"] # <<>>
    /\ own_calls(last) = <<>>
    /\ Len(elements["stream_b"]) = 2
    /\ \E j \in 1 .. Len(last.calls) :
          /\ last.calls[j].stream = "stream_b"
          /\ last.calls[j].idx = 1
          /\ last.calls[j].none
    /\ \A j \in 1 .. Len(last.calls) : last.calls[j].idx = 1
    /\ sink_result["result_stream"] = <<>>
    /\ run_pulls = 1

\* C12: a get_frame made on a stream whose Source (batch or split) reports
\* closed raises SourceIsClosedException, from Source.get_frame and so from
\* Stream.get_frame; no element and no Sink is invoked, and the Source's
\* remaining data, the split buffer and the frames handed out so far are
\* what they were before the call.
C12_ClosedPullChangesNothing ==
    [][\A s \in streams :
          (get_frame_called /\ last'.stream = s /\ source[s].kind = "Source" /\ closed(s))
            => /\ Source_get_frame(World, s).exc = "SourceIsClosedException"
               /\ Source_get_frame(World, s).w = World
               /\ last'.exc = "SourceIsClosedException"
               /\ last'.calls = <<>>
               /\ _data' = _data
               /\ frames' = frames
               /\ returned' = returned
               /\ sink_result' = sink_result]_vars

\* C12 witness: the origin of a split has handed out its whole collection
\* and was pulled again, which was refused, while the split buffer still
\* holds mirrored frames
C12_Witness ==
    /\ last.stream = "stream_a"
    /\ last.closed_before
    /\ last.exc = "SourceIsClosedException"
    /\ ~ source["stream_b"].all_at_once
    /\ Len(content("stream_a")) = MaxSplitLen
    /\ returned["stream_a"] = content("stream_a")
    /\ Len(frames) = MaxSplitLen
    /\ Len(elements["stream_a"]) >= 2

\* the streams attached to the Barrier of result_stream
constituents ==
    {source["result_stream"]._streams[i] : i \in 1 .. Len(source["result_stream"]._streams)}

\* C13: in every state the Barrier (and so the stream it feeds) reports
\* closed exactly when every stream attached to it reports closed, whether
\* the Barrier's buffer is empty or holds mappings.
C13_BarrierClosedIffAllClosed ==
    /\ Barrier_is_closed(World, "result_stream") <=> \A n \in constituents : closed(n)
    /\ closed("result_stream") <=> \A n \in constituents : closed(n)
    /\ (\E n \in constituents : ~ closed(n)) => ~ Barrier_is_closed(World, "result_stream")

\* C13 witness: every attached stream has been drained through the Barrier,
\* whose buffer still holds a mapping, and the Barrier reports closed
C13_Witness ==
    /\ \A n \in constituents : closed(n)
    /\ Barrier_is_closed(World, "result_stream")
    /\ _queue # <<>>
    /\ \A n \in constituents : (returned[n] # <<>> /\ returned[n] = content(n))
    /\ last.stream = "result_stream"
    /\ ~ last.closed_before

\* the windowing handler of the Barrier leaves the buffer as it finds it
handler_keeps_buffer ==
    source["result_stream"]._handler \in {"always_open", "open_when_two"}

\* the k-th mapping a Barrier over batch streams without elements assembles
\* when only the Barrier pulls from them
assembled(k) ==
    [n \in constituents |-> IF k <= Len(content(n)) THEN content(n)[k] ELSE None]

\* the Barrier is over batch streams with at least one frame each, and
\* neither they nor the Barrier's stream have elements
plain_barrier ==
    /\ \A n \in constituents : (source[n].all_at_once /\ content(n) # <<>>)
    /\ \A s \in streams : elements[s] = <<>>

\* C14: whenever the Barrier's handler answers open, get_frame returns the
\* first mapping of the buffer as the handler left it and removes exactly
\* that one; with a handler that leaves the buffer alone that is the oldest
\* mapping of the buffer before the call (or the one just assembled if the
\* buffer was empty).  So in a run() the mappings handed to the Sink,
\* followed by the buffer, are the mappings assembled so far, in the order
\* of their assembly and each once.
C14_BarrierFifoRelease ==
    /\ [][(/\ get_frame_called
           /\ last'.stream = "result_stream"
           /\ last'.exc = "none"
           /\ Len(last'.windows) = 1)
          => LET W == last'.windows[1]
                 h == barrier_handler(source["result_stream"]._handler,
                                      source["result_stream"]._streams, W)
                 released == IF elements["result_stream"] = <<>>
                             THEN last'.frame
                             ELSE own_calls(last')[1].frame
             IN  /\ handler_keeps_buffer => (h.buffer = W /\ W = Append(_queue, W[Len(W)]))
                 /\ h.open => /\ elements["result_stream"] = <<>> => ~ last'.none
                              /\ released = Head(h.buffer)
                              /\ _queue' = Tail(h.buffer)
                 /\ (h.open /\ handler_keeps_buffer /\ _queue # <<>>)
                       => released = Head(_queue)]_vars
    /\ []((/\ handler_keeps_buffer
           /\ plain_barrier
           /\ run_fresh
           /\ run_stream = "result_stream"
           /\ run_status \in {"running", "returned"}
           /\ (run_pulls > 0 => (last.by_run /\ last.stream = "result_stream")))
            => sink_result["result_stream"] \o _queue
                  = [k \in 1 .. run_pulls |-> assembled(k)])

\* C14 witness: with the handler that answers open once the buffer holds two
\* mappings, a run() has returned after handing the Sink every mapping but
\* the last, which is still in the buffer
C14_Witness ==
    /\ source["result_stream"]._handler = "open_when_two"
    /\ plain_barrier
    /\ run_fresh
    /\ run_stream = "result_stream"
    /\ run_status = "returned"
    /\ last.by_run
    /\ run_pulls = MaxBarrierLen
    /\ Len(sink_result["result_stream"]) = MaxBarrierLen - 1
    /\ sink_result["result_stream"][1] = assembled(1)
    /\ _queue = <<assembled(MaxBarrierLen)>>
    /\ assembled(1) # assembled(MaxBarrierLen)

\* stream s has a batch Source with at least one frame and no fatal gate, so
\* that nothing but its Sink can make its run() fail
only_sink_can_fail(s) ==
    /\ source[s].all_at_once
    /\ content(s) # <<>>
    /\ \A i \in 1 .. Len(elements[s]) : ~ elements[s][i]._is_fatal

\* C15: every run() called on a stream attached to a Barrier (a batch stream
\* with frames and no fatal gate) ends with the exception of the Barrier's
\* error_sink, and the Sink the stream had before is handed nothing.
C15_IndependentRunFails ==
    (run_stream \in constituents /\ only_sink_can_fail(run_stream)
        /\ run_status # "running")
        => /\ run_status = "Exception"
           /\ sink_result[run_stream] = <<>>

\* C16: in every state reached by any interleaving of pulls on the origin
\* stream_a and on its split stream_b, stream_b reports closed exactly when
\* stream_a reports closed (its batch Source is materialized and empty) and
\* the split buffer is empty; so stream_b is never closed while the buffer
\* holds a mirrored frame.
C16_DerivedClosedIffOriginClosedAndEmpty ==
    /\ closed("stream_b") <=> (closed("stream_a") /\ frames = <<>>)
    /\ Source_is_closed(World, "stream_b") <=> (closed("stream_a") /\ frames = <<>>)
    /\ closed("stream_b") <=> /\ ~ _data["stream_a"].is_None
                              /\ _data["stream_a"].list = <<>>
                              /\ frames = <<>>
    /\ frames # <<>> => ~ closed("stream_b")

\* C16 witness: origin and split were pulled in turn; the origin is closed,
\* the split has handed out a frame, another is still in the buffer and the
\* split reports open
C16_Witness ==
    /\ closed("stream_a")
    /\ Len(content("stream_a")) = MaxSplitLen
    /\ returned["stream_a"] = content("stream_a")
    /\ returned["stream_b"] # <<>>
    /\ frames # <<>>
    /\ ~ closed("stream_b")

\* Source(...) has been called for element
source_requested == new_source.built \/ new_source.exc # "none"

\* C17: Source(...) called with all_at_once false and no closer raises
\* ValueError and gives no Source object; every other call gives one, a
\* batch Source needing no closer.  So on every Source object that exists
\* is_closed (which get_frame calls first) finds a closer to call when it
\* needs one.
C17_NoCloserRejected ==
    /\ source_requested =>
          /\ new_source.exc = "ValueError"
                <=> (~ element.all_at_once /\ element.closer = "None")
          /\ new_source.exc \in {"none", "ValueError"}
          /\ new_source.built <=> new_source.exc = "none"
          /\ element.all_at_once => new_source.built
    /\ new_source.built =>
          /\ new_source.all_at_once \/ new_source.closer # "None"
          /\ Source_is_closed_of(new_source) # "TypeError"
          /\ new_source.is_closed # "TypeError"

\* C17 witness: an on-demand Source was requested without a closer and with
\* captured arguments, and was refused
C17_Witness ==
    /\ source_requested
    /\ ~ element.all_at_once
    /\ element.closer = "None"
    /\ Len(element._handler_args) = MaxArgs
    /\ new_source.exc = "ValueError"
    /\ ~ new_source.built

\* C18: call_handler(*runtime) of an element with the captured arguments
\* captured invokes the handler with runtime followed by captured when the
\* handler has no self parameter, and with captured[1], then runtime, then
\* the rest of captured when it has one (captured[1] being the receiver);
\* the captured keyword arguments are passed as they are and what the
\* handler returns is returned.
C18_BinderArgumentOrder ==
    handler_call.called =>
        LET captured == element._handler_args
            runtime  == handler_call.args
        IN  /\ ~ element.has_self =>
                  /\ handler_call.exc = "none"
                  /\ handler_call.ret.args = runtime \o captured
            /\ (element.has_self /\ captured # <<>>) =>
                  /\ handler_call.exc = "none"
                  /\ handler_call.ret.args
                        = <<captured[1]>> \o runtime \o SubSeq(captured, 2, Len(captured))
            /\ handler_call.exc = "none" =>
                  /\ handler_call.ret.kwargs = element._handler_kwargs
                  /\ handler_call.ret = echo(handler_call.ret.args, element._handler_kwargs)
                  /\ Len(handler_call.ret.args) = Len(runtime) + Len(captured)

\* C18 witness: a handler with a self parameter, the most captured and the
\* most runtime arguments and a keyword argument was called, the receiver
\* differing from the first runtime argument
C18_Witness ==
    /\ handler_call.called
    /\ handler_call.exc = "none"
    /\ element.has_self
    /\ Len(element._handler_args) = MaxArgs
    /\ Len(handler_call.args) = MaxArgs
    /\ element._handler_args[1] # handler_call.args[1]
    /\ element._handler_args[MaxArgs] # handler_call.args[MaxArgs]
    /\ element._handler_kwargs # {}

\* what the Source frame v of stream s has become when it arrives at the
\* split passthrough, passing the elements from position i on: None if an
\* element before the passthrough drops it
before_split(s, i, v) ==
    LET e == elements[s][i]
        r == handler(e._handler, <<v>> \o e._handler_args)
        out == IF e.cls = "Gate" THEN (IF r THEN v ELSE None) ELSE r
    IN  IF e.is_split_stream THEN v
        ELSE IF out = None THEN None
        ELSE before_split(s, i + 1, out)

\* the frames that have reached the split passthrough of stream_a, given the
\* frames fs its Source has handed out
reached_split(fs) ==
    SelectSeq([k \in 1 .. Len(fs) |-> before_split("stream_a", 1, fs[k])],
              LAMBDA v : v # None)

\* C19: in every state reached by any interleaving of pulls on stream_a and
\* on its split stream_b, the frames stream_b's Source has handed out
\* followed by the split buffer are the frames that reached the split point
\* of stream_a, in that order; a frame dropped before the split point is not
\* mirrored and None is never in the buffer.  The passthrough puts the frame
\* it is given at the end of the buffer and returns that same frame to the
\* elements after it.
C19_SplitMirrorsEveryFrame ==
    /\ [](/\ returned["stream_b"] \o frames = reached_split(returned["stream_a"])
          /\ \A k \in 1 .. Len(frames) : frames[k] # None)
    /\ [][get_frame_called =>
            \A j \in 1 .. Len(last'.calls) :
                LET x == last'.calls[j] IN
                elements[x.stream][x.idx].is_split_stream
                  => /\ x.exc = "none"
                     /\ ~ x.none
                     /\ x.out = x.frame
                     /\ frames' = Append(frames, x.frame)
                     /\ j < Len(last'.calls) => last'.calls[j + 1].frame = x.frame]_vars

\* C19 witness: a transformer before the split point has changed both frames
\* of stream_a; stream_b has handed out the first mirrored frame and the
\* second is in the buffer, stream_a having an element after the split point
C19_Witness ==
    /\ Len(returned["stream_a"]) = MaxSplitLen
    /\ returned["stream_b"] # <<>>
    /\ frames # <<>>
    /\ returned["stream_b"] \o frames # returned["stream_a"]
    /\ Len(returned["stream_b"] \o frames) = MaxSplitLen
    /\ Len(elements["stream_a"]) = 3

\* the objects as they are when a Barrier.get_frame made in the current
\* state comes to check the i-th of the streams names, the streams before it
\* having been checked and, if open, pulled
world_at(names, i) ==
    IF i = 1 THEN World
    ELSE LET w == world_at(names, i - 1)
             n == names[i - 1]
         IN  IF Stream_is_closed(w, n) THEN w ELSE Stream_get_frame(w, n).w

\* C20: a Barrier.get_frame call goes through the attached streams once, in
\* the order of the mapping: a stream that reports closed when its turn
\* comes is not pulled (its Source keeps its data) and gets None for its
\* slot, a stream that reports open is pulled exactly once and its slot is
\* what the pull returned.  When no pull fails the assembled mapping has
\* exactly one slot per attached stream; when a pull fails the streams after
\* it are not looked at.
C20_BarrierAssembly ==
    [][(get_frame_called /\ last'.stream = "result_stream")
        => LET names == source["result_stream"]._streams
               pulls == last'.pulls
               turn(n) == CHOOSE i \in 1 .. Len(names) : names[i] = n
               open_at_turn(n) == ~ Stream_is_closed(world_at(names, turn(n)), n)
               pulled(n) == \E j \in 1 .. Len(pulls) : pulls[j] = n
           IN  /\ \A j \in 1 .. Len(pulls) :
                     /\ pulls[j] \in constituents
                     /\ open_at_turn(pulls[j])
                     /\ \A k \in 1 .. j - 1 : turn(pulls[k]) < turn(pulls[j])
               /\ \A n \in constituents :
                     ~ pulled(n) => (_data'[n] = _data[n] /\ returned'[n] = returned[n])
               /\ last'.exc # "none" =>
                     \A n \in constituents :
                        pulled(n) <=> (open_at_turn(n) /\ turn(n) <= turn(pulls[Len(pulls)]))
               /\ last'.exc = "none" =>
                     /\ Len(last'.windows) = 1
                     /\ LET W == last'.windows[1]
                            m == W[Len(W)]
                        IN  /\ DOMAIN m = constituents
                            /\ \A n \in constituents :
                                  /\ pulled(n) <=> open_at_turn(n)
                                  /\ ~ open_at_turn(n) => m[n] = None
                                  /\ open_at_turn(n) =>
                                        /\ Len(returned'[n]) = Len(returned[n]) + 1
                                        /\ m[n] = Stream_get_frame(
                                                     world_at(names, turn(n)), n).ret]_vars

\* C20 witness: a Barrier.get_frame found stream_a closed and stream_b open:
\* it pulled stream_b only, and the mapping has None for stream_a and the
\* frame pulled for stream_b
C20_Witness ==
    /\ last.stream = "result_stream"
    /\ last.exc = "none"
    /\ last.pulls = <<"stream_b">>
    /\ source["result_stream"]._streams = <<"stream_a", "stream_b">>
    /\ Len(last.windows) = 1
    /\ LET W == last.windows[1]
           m == W[Len(W)]
       IN  /\ DOMAIN m = {"stream_a", "stream_b"}
           /\ m["stream_a"] = None
           /\ m["stream_b"] # None
    /\ returned["stream_a"] # <<>>
    /\ closed("stream_a")

\* the step is a get_frame call on the stream the Barrier feeds
barrier_called == get_frame_called /\ last'.stream = "result_stream"

\* what the Barrier's windowing handler answers for the buffer W, and the
\* buffer as it leaves it
verdict(W) ==
    barrier_handler(source["result_stream"]._handler,
                    source["result_stream"]._streams, W)

\* C21: when the windowing handler answers not open, Barrier.get_frame
\* returns None (no element of the Barrier's stream is invoked) and the
\* buffer after the call is the buffer as the handler left it; with a
\* handler that leaves the buffer alone that is the buffer before the call
\* with the mapping just assembled appended.
C21_BarrierNotOpenKeepsBuffer ==
    [][(barrier_called /\ last'.exc = "none" /\ Len(last'.windows) = 1)
        => LET W == last'.windows[1]
               h == verdict(W)
           IN  ~ h.open =>
                  /\ last'.none
                  /\ own_calls(last') = <<>>
                  /\ sink_result' = sink_result
                  /\ _queue' = h.buffer
                  /\ handler_keeps_buffer =>
                        /\ _queue' = Append(_queue, W[Len(W)])
                        /\ Len(_queue') = Len(_queue) + 1]_vars

\* C21 witness: the handler that waits for two mappings answered not open on
\* the first call of a run(); the call returned None and the buffer holds
\* the one mapping assembled
C21_Witness ==
    /\ source["result_stream"]._handler = "open_when_two"
    /\ plain_barrier
    /\ last.stream = "result_stream"
    /\ last.by_run
    /\ last.exc = "none"
    /\ last.none
    /\ run_pulls = 1
    /\ _queue = <<assembled(1)>>
    /\ sink_result["result_stream"] = <<>>

\* C22: every Barrier.get_frame call whose pulls succeed invokes the
\* windowing handler exactly once, with the buffer as the call before left
\* it followed by the mapping just assembled; and the buffer changes in no
\* other way than by such a call, which leaves it as the handler left it,
\* less the first mapping when the handler answered open.
C22_HandlerSeesWholeBuffer ==
    [][/\ (barrier_called /\ last'.exc = "none")
            => /\ Len(last'.windows) = 1
               /\ LET W == last'.windows[1]
                  IN  /\ Len(W) = Len(_queue) + 1
                      /\ SubSeq(W, 1, Len(W) - 1) = _queue
                      /\ DOMAIN W[Len(W)] = constituents
                      /\ _queue' = IF verdict(W).open THEN Tail(verdict(W).buffer)
                                                      ELSE verdict(W).buffer
       /\ _queue' # _queue => (barrier_called /\ last'.exc = "none")]_vars

\* C22 witness: on the second call of a run() the handler was given the
\* mapping kept from the first call followed by the mapping of the second
C22_Witness ==
    /\ source["result_stream"]._handler = "open_when_two"
    /\ plain_barrier
    /\ last.stream = "result_stream"
    /\ last.by_run
    /\ run_fresh
    /\ run_pulls = 2
    /\ last.windows = <<(<<assembled(1), assembled(2)>>)>>
    /\ assembled(1) # assembled(2)
    /\ ~ last.none

\* the split buffer is empty and the origin stream_a is not closed
split_starved == frames = <<>> /\ ~ closed("stream_a")

C24_EmptyBatchSourceRaisesIndexError ==
    /\ [](\A s \in streams :
            content(s) = <<>> =>
               /\ closed(s) <=> ~ _data[s].is_None
               /\ returned[s] = <<>>
               /\ sink_result[s] = <<>>
               /\ run_stream = s =>
                     /\ run_status \in {"running", "IndexError"}
                           \/ (run_status = "returned" /\ ~ run_fresh /\ run_pulls = 0)
                     /\ run_sunk = 0
                     /\ run_pulls <= 1
                     /\ run_fresh => (run_status = "IndexError" <=> run_pulls = 1))
    /\ [][\A s \in streams :
            (get_frame_called /\ last'.stream = s /\ content(s) = <<>>)
               => /\ last'.calls = <<>>
                  /\ last'.exc = IF _data[s].is_None THEN "IndexError"
                                                     ELSE "SourceIsClosedException"
                  /\ ~ _data'[s].is_None
                  /\ _data'[s].list = <<>>]_vars

\* C24 witness: a run() that was the first call on a stream with elements
\* and an empty batch collection has ended with IndexError after one pull,
\* and the stream now reports closed
C24_Witness ==
    /\ content("stream_a") = <<>>
    /\ Len(elements["stream_a"]) = MaxElems
    /\ run_stream = "stream_a"
    /\ run_fresh
    /\ run_status = "IndexError"
    /\ run_pulls = 1
    /\ last.exc = "IndexError"
    /\ ~ last.closed_before
    /\ closed("stream_a")

\* the mapping a Barrier assembles when every attached stream is closed
all_None == [n \in constituents |-> None]

max_N ==
    CHOOSE k \in {Len(content(n)) : n \in constituents} :
        \A n \in constituents : Len(content(n)) <= k

\* a run() of the Barrier's stream that was the first call on a pipeline
\* whose attached streams are batch streams with at least one frame each and
\* without fatal gates
barrier_run ==
    /\ run_stream = "result_stream"
    /\ run_fresh
    /\ \A n \in constituents : only_sink_can_fail(n)

\* C26: a run() of a stream fed by a Barrier over batch streams of N_i >= 1
\* frames (no pull raising) calls get_frame max(N_i) times, the loop
\* continuing while fewer calls were made, and then returns; each call
\* hands the Sink one mapping if the handler answered open (and the
\* stream's own elements pass it) and nothing otherwise; the step that
\* finds the Barrier closed returns without touching buffer or Sink, so
\* the mappings then in the buffer are not delivered: with a handler that
\* leaves the buffer alone, deliveries plus buffered mappings are max(N_i).
C26_BarrierRunLength ==
    /\ [](barrier_run =>
            /\ run_status \in {"running", "returned"}
            /\ run_pulls <= max_N
            /\ run_status = "returned" => run_pulls = max_N
            /\ run_status = "running" => (closed("result_stream") <=> run_pulls = max_N)
            /\ \A n \in constituents :
                  Len(returned[n]) = IF run_pulls <= Len(content(n))
                                     THEN run_pulls ELSE Len(content(n))
            /\ run_sunk <= run_pulls
            /\ (handler_keeps_buffer /\ elements["result_stream"] = <<>>)
                  => run_sunk + Len(_queue) = run_pulls
            /\ (run_status = "returned" /\ handler_keeps_buffer
                   /\ elements["result_stream"] = <<>>)
                  => run_sunk + Len(_queue) = max_N)
    /\ [][barrier_run =>
            /\ run_pulled =>
                  /\ Len(last'.windows) = 1
                  /\ LET open == verdict(last'.windows[1]).open
                     IN  /\ run_sunk' \in {run_sunk, run_sunk + 1}
                         /\ run_sunk' = run_sunk + 1 => open
                         /\ elements["result_stream"] = <<>>
                               => (run_sunk' = run_sunk + 1 <=> open)
                         /\ Len(sink_result'["result_stream"])
                               = Len(sink_result["result_stream"]) + (run_sunk' - run_sunk)
            /\ (run_status = "running" /\ run_status' = "returned")
                  => /\ _queue' = _queue
                     /\ sink_result' = sink_result
                     /\ run_sunk' = run_sunk
                     /\ run_pulls' = run_pulls]_vars

\* C26 witness: a run() over collections of different lengths has returned
\* after as many calls as the longer one has frames, the handler having
\* answered open in all but the first, and one mapping is left in the buffer
C26_Witness ==
    /\ barrier_run
    /\ source["result_stream"]._handler = "open_when_two"
    /\ elements["result_stream"] = <<>>
    /\ Len(content("stream_a")) # Len(content("stream_b"))
    /\ run_status = "returned"
    /\ run_pulls = max_N
    /\ run_sunk = max_N - 1
    /\ Len(_queue) = 1
    /\ Len(sink_result["result_stream"]) = run_sunk

\* the frames the Source of s still holds
remaining(s) == IF _data[s].is_None THEN content(s) ELSE _data[s].list

\* C27: when get_frame on the origin stream_a raises GateFailedException,
\* the frame that failed has been removed from the Source and (the gate
\* being downstream of the split) its value at the split point has been
\* appended to the split buffer, from where stream_b receives it; nothing is
\* undone.  The Source hands out its collection in order, each frame once,
\* so the next pull on stream_a yields the frame after the failed one.
C27_GateFailureNotRolledBack ==
    /\ [](/\ returned["stream_a"] \o remaining("stream_a") = content("stream_a")
          /\ returned["stream_b"] \o frames = reached_split(returned["stream_a"]))
    /\ [][/\ (get_frame_called /\ last'.stream = "stream_a"
                /\ last'.exc = "GateFailedException")
               => LET f == Head(remaining("stream_a"))
                  IN  /\ remaining("stream_a") # <<>>
                      /\ remaining("stream_a")' = Tail(remaining("stream_a"))
                      /\ returned'["stream_a"] = Append(returned["stream_a"], f)
                      /\ frames' = Append(frames, before_split("stream_a", 1, f))
                      /\ returned'["stream_b"] = returned["stream_b"]
          /\ (get_frame_called /\ last'.stream = "stream_a" /\ last'.exc = "none"
                /\ last.stream = "stream_a" /\ last.exc = "GateFailedException")
               => /\ Len(returned["stream_a"]) >= 1
                  /\ returned'["stream_a"] =
                        Append(returned["stream_a"],
                               content("stream_a")[Len(returned["stream_a"]) + 1])
          /\ (get_frame_called /\ last'.stream = "stream_b" /\ last'.exc = "none")
               => /\ frames # <<>>
                  /\ frames' = Tail(frames)
                  /\ returned'["stream_b"] = Append(returned["stream_b"], Head(frames))]_vars

\* C27 witness: a run() of stream_a ended with GateFailedException on its
\* first frame; stream_b then received that frame's mirrored copy, and the
\* next pull on stream_a gave the second frame, which passed the gate
C27_Witness ==
    /\ run_stream = "stream_a"
    /\ run_fresh
    /\ run_status = "GateFailedException"
    /\ run_pulls = 1
    /\ Len(returned["stream_a"]) = 2
    /\ returned["stream_b"] = <<before_split("stream_a", 1, content("stream_a")[1])>>
    /\ returned["stream_b"][1] % 2 = 1
    /\ Len(frames) = 1
    /\ last.stream = "stream_a"
    /\ last.exc = "none"
    /\ ~ last.none
    /\ last.frame = frames[1]

\* the streams the latest Barrier call pulled from before the one that raised
pulled_before_failure ==
    {last'.pulls[i] : i \in 1 .. Len(last'.pulls) - 1}

\* C28: when a pull from an attached stream raises during Barrier.get_frame,
\* the call raises the same exception, the windowing handler is not invoked
\* and the Barrier's buffer and the Sinks are as before the call; the streams
\* pulled from earlier in the call have each lost one frame from their
\* Source, and that frame is in no mapping: in a run() that ends this way
\* the mappings delivered or buffered number one less than the frames taken
\* from such a stream, and the buffer only ever changes in calls that succeed.
C28_FailedPullLosesEarlierFrames ==
    /\ [][/\ (barrier_called /\ last'.exc # "none")
               => /\ last'.pulls # <<>>
                  /\ last'.windows = <<>>
                  /\ own_calls(last') = <<>>
                  /\ _queue' = _queue
                  /\ sink_result' = sink_result
                  /\ \A n \in pulled_before_failure :
                        /\ ~ closed(n)
                        /\ Len(returned'[n]) = Len(returned[n]) + 1
                        /\ source[n].all_at_once
                              => (/\ returned'[n] = Append(returned[n], Head(remaining(n)))
                                  /\ remaining(n)' = Tail(remaining(n)))
                  /\ LET failed == last'.pulls[Len(last'.pulls)]
                     IN  /\ ~ closed(failed)
                         /\ failed \notin pulled_before_failure
          /\ _queue' # _queue => (barrier_called /\ last'.exc = "none")]_vars
    /\ []((/\ run_stream = "result_stream"
           /\ run_fresh
           /\ run_status \notin {"running", "returned"}
           /\ handler_keeps_buffer
           /\ elements["result_stream"] = <<>>
           /\ last.by_run
           /\ last.stream = "result_stream"
           /\ last.pulls = <<"stream_a", "stream_b">>)
          => /\ last.exc = run_status
             /\ Len(returned["stream_a"]) = run_pulls
             /\ run_sunk + Len(_queue) = run_pulls - 1
             /\ Len(sink_result["result_stream"]) = run_sunk)

\* C28 witness: the second call of a run() pulled the last frame of stream_a
\* and then failed at the fatal gate of stream_b; stream_a is drained, the
\* buffer is empty, and the Sink received only the first mapping
C28_Witness ==
    /\ run_stream = "result_stream"
    /\ run_fresh
    /\ run_status = "GateFailedException"
    /\ run_pulls = 2
    /\ source["result_stream"]._handler = "always_open"
    /\ elements["stream_a"] = <<>>
    /\ last.stream = "result_stream"
    /\ last.exc = "GateFailedException"
    /\ last.pulls = <<"stream_a", "stream_b">>
    /\ last.windows = <<>>
    /\ returned["stream_a"] = content("stream_a")
    /\ Len(returned["stream_a"]) = 2
    /\ closed("stream_a")
    /\ _queue = <<>>
    /\ sink_result["result_stream"] = <<assembled(1)>>

\* a run() of the Barrier's stream that was the first call on a pipeline in
\* which stream_b is the split of stream_a and the Barrier lists the two in
\* the order names, seen during the run or right after its last call
split_barrier_run(names) ==
    /\ ~ source["stream_b"].all_at_once
    /\ source["result_stream"]._streams = names
    /\ run_stream = "result_stream"
    /\ run_fresh
    /\ run_pulls > 0 => (last.by_run /\ last.stream = "result_stream")

\* C29: in a run() of a Barrier over an origin of N >= 1 frames and its
\* split, origin listed first, every call pulls from the origin and then
\* from the split stream, which receives the value the origin's frame had at
\* the split point; the split buffer is empty after every call, the two
\* streams are closed in the same states, and the run returns after exactly
\* N calls.  With the split stream listed first, the first call pulls from
\* it alone and raises Empty, and the run ends with that.
C29_BarrierOverSplit ==
    /\ []((split_barrier_run(<<"stream_a", "stream_b">>) /\ content("stream_a") # <<>>)
          => /\ run_status \in {"running", "returned"}
             /\ frames = <<>>
             /\ Len(returned["stream_a"]) = run_pulls
             /\ returned["stream_a"] = SubSeq(content("stream_a"), 1, run_pulls)
             /\ returned["stream_b"] = reached_split(returned["stream_a"])
             /\ Len(returned["stream_b"]) = run_pulls
             /\ closed("stream_a") <=> closed("stream_b")
             /\ closed("stream_a") <=> run_pulls = Len(content("stream_a"))
             /\ run_pulls <= Len(content("stream_a"))
             /\ run_status = "returned" => run_pulls = Len(content("stream_a"))
             /\ run_pulls > 0 =>
                   /\ last.exc = "none"
                   /\ last.pulls = <<"stream_a", "stream_b">>
                   /\ Len(last.windows) = 1
                   /\ LET W == last.windows[1]
                          m == W[Len(W)]
                      IN  /\ m["stream_a"] = returned["stream_b"][run_pulls]
                          /\ m["stream_b"] \in {m["stream_a"], None}
                          /\ elements["stream_b"] = <<>> => m["stream_b"] = m["stream_a"])
    /\ [](split_barrier_run(<<"stream_b", "stream_a">>)
          => /\ run_status \in {"running", "Empty"}
             /\ run_pulls <= 1
             /\ run_status = "Empty" <=> run_pulls = 1
             /\ run_pulls = 1 =>
                   /\ last.exc = "Empty"
                   /\ last.pulls = <<"stream_b">>
                   /\ last.windows = <<>>
             /\ returned["stream_a"] = <<>>
             /\ _data["stream_a"].is_None
             /\ frames = <<>>
             /\ sink_result["result_stream"] = <<>>)

\* C29 witness: the layout of example/hello_world.py (a transformer before
\* the split, a non-fatal is_even gate on the split stream, a handler that is
\* always open): the run has returned after as many calls as the origin has
\* frames, both streams are closed, the split buffer is empty and the Sink
\* holds one mapping per call
C29_Witness ==
    /\ split_barrier_run(<<"stream_a", "stream_b">>)
    /\ source["result_stream"]._handler = "always_open"
    /\ Len(content("stream_a")) = MaxBarrierLen
    /\ Len(elements["stream_a"]) = 2
    /\ elements["stream_b"] # <<>>
    /\ run_status = "returned"
    /\ run_pulls = MaxBarrierLen
    /\ closed("stream_a")
    /\ closed("stream_b")
    /\ frames = <<>>
    /\ returned["stream_b"] = reached_split(content("stream_a"))
    /\ Len(sink_result["result_stream"]) = MaxBarrierLen
    /\ \E k \in 1 .. MaxBarrierLen : sink_result["result_stream"][k]["stream_b"] = None
    /\ \E k \in 1 .. MaxBarrierLen : sink_result["result_stream"][k]["stream_b"] # None

====
